---- MODULE Spec2Model ----
(***************************************************************************)
(* The Composite example of src/structural/composite.ts: Folder and        *)
(* TextFile objects on a heap, Folder.add, and the recursive showDetails   *)
(* traversal run as a call stack, one statement per step, writing to the   *)
(* console; and, each a program of its own, the Singleton, Factory,        *)
(* Observer, Decorator and Builder examples.                               *)
(***************************************************************************)
EXTENDS Naturals, Sequences, FiniteSets, TLC

VARIABLES
    heap,      \* the objects constructed so far; a reference is an index
    stack,     \* the call stack of showDetails frames, innermost last
    console,   \* the lines console.log has written, oldest first
    status,    \* "idle" (client code runs), "running" (inside showDetails), "crashed"
    calls,     \* history: the client's showDetails calls, oldest first
    visited,   \* history: visited[i] is the object that wrote console[i]
    added,     \* history: added[f] is the arguments of the add calls on f, in call order
    nAdded,    \* history: the number of add calls made
    singleton, \* the Singleton example: DatabaseConnectionWithSingleton
    factory,   \* the Factory example: the create calls of a client
    publisher, \* the Observer example: a NewsPublisher and its subscribers
    character, \* the Decorator example: a GameCharacter and its power-ups
    builder    \* the Builder example: a HouseBuilder and the houses built

\* the Composite example's variables
composite == <<heap, stack, console, status, calls, visited, added, nAdded>>

\* the other examples' variables: separate programs, which the Composite
\* example never touches
patterns == <<singleton, factory, publisher, character, builder>>

vars == <<heap, stack, console, status, calls, visited, added, nAdded,
          singleton, factory, publisher, character, builder>>

\* ------------------------------------------------------------------ bounds

MaxNodes == 3
MaxAdds == 2
MaxShows == 1
MaxUsageShows == 2
\* The engine's call stack holds a frame for every level of the deepest
\* acyclic structure of the bounds; only a cyclic structure exhausts it.
MaxStack == MaxNodes

Names == {"images"}

\* ------------------------------------------------------------ the classes

Refs == 1..Len(heap)

IsFolder(o) == heap[o].kind = "Folder"

IsTextFile(o) == heap[o].kind = "TextFile"

\* new TextFile(name)
TextFileObject(n) == [kind |-> "TextFile", name |-> n, children |-> <<>>]

\* new Folder(name), with private children: FileSystemComponent[] = []
FolderObject(n) == [kind |-> "Folder", name |-> n, children |-> <<>>]

\* getName(): return this.name
getName(o) == heap[o].name

\* this.children.unshift(child)
pushFront(children, child) == <<child>> \o children

\* if (!this.children.includes(child)) this.children.push(child)
pushUnique(children, child) ==
    IF \E k \in 1..Len(children) : children[k] = child
    THEN children
    ELSE Append(children, child)

\* this.children.push(child)
push(children, child) == Append(children, child)

\* TextFile.showDetails with a template of two spaces
TextFileLineTwoSpaces(n) == "  " \o n

\* TextFile.showDetails: the text of `    ${this.name}`
TextFileLine(n) == "    " \o n

\* Folder.showDetails with the TextFile's template
FolderLineIndented(n) == "    " \o n

\* Folder.showDetails: the text of `${this.name}`
FolderLine(n) == n

\* the line an object's showDetails writes
LineOf(o) == IF IsFolder(o) THEN FolderLine(getName(o)) ELSE TextFileLine(getName(o))

\* a Folder that visits its children before it writes its own line
BodyPostOrder(kind) == IF kind = "Folder" THEN <<"each", "log">> ELSE <<"log">>

\* a Folder that writes a closing line after its children
BodyFolderFooter(kind) == IF kind = "Folder" THEN <<"log", "each", "log">> ELSE <<"log">>

\* a TextFile that writes its line twice
BodyLeafTwice(kind) == IF kind = "Folder" THEN <<"log", "each">> ELSE <<"log", "log">>

\* the statements of showDetails: a Folder's console.log and forEach, a
\* TextFile's console.log
Body(kind) == IF kind = "Folder" THEN <<"log", "each">> ELSE <<"log">>

\* --------------------------------------------------------------- actions

NewTextFile(n) ==
    /\ status = "idle"
    /\ heap' = Append(heap, TextFileObject(n))
    /\ added' = Append(added, <<>>)
    /\ UNCHANGED <<stack, console, status, calls, visited, nAdded>>
    /\ UNCHANGED patterns

NewFolder(n) ==
    /\ status = "idle"
    /\ heap' = Append(heap, FolderObject(n))
    /\ added' = Append(added, <<>>)
    /\ UNCHANGED <<stack, console, status, calls, visited, nAdded>>
    /\ UNCHANGED patterns

\* an add that rejects a child from which the folder can be reached
addNoCycle(f, c) ==
    /\ status = "idle"
    /\ f \in Refs /\ c \in Refs
    /\ IsFolder(f)
    /\ c # f
    /\ \A k \in 1..Len(heap[c].children) : heap[c].children[k] # f
    /\ heap' = [heap EXCEPT ![f].children = Append(@, c)]
    /\ added' = [added EXCEPT ![f] = Append(@, c)]
    /\ nAdded' = nAdded + 1
    /\ UNCHANGED <<stack, console, status, calls, visited>>
    /\ UNCHANGED patterns

\* an add that stores the child under its path: it renames the child
addRenames(f, c) ==
    /\ status = "idle"
    /\ f \in Refs /\ c \in Refs
    /\ IsFolder(f)
    /\ heap' = [heap EXCEPT ![f].children = Append(@, c),
                            ![c].name = heap[f].name \o "/" \o @]
    /\ added' = [added EXCEPT ![f] = Append(@, c)]
    /\ nAdded' = nAdded + 1
    /\ UNCHANGED <<stack, console, status, calls, visited>>
    /\ UNCHANGED patterns

\* an add that a first showDetails() call freezes
addFrozen(f, c) ==
    /\ status = "idle"
    /\ calls = <<>>
    /\ f \in Refs /\ c \in Refs
    /\ IsFolder(f)
    /\ heap' = [heap EXCEPT ![f].children = Append(@, c)]
    /\ added' = [added EXCEPT ![f] = Append(@, c)]
    /\ nAdded' = nAdded + 1
    /\ UNCHANGED <<stack, console, status, calls, visited>>
    /\ UNCHANGED patterns

\* an add on a children array that all the folders share
addStatic(f, c) ==
    /\ status = "idle"
    /\ f \in Refs /\ c \in Refs
    /\ IsFolder(f)
    /\ heap' = [o \in Refs |->
                   IF IsFolder(o) THEN [heap[o] EXCEPT !.children = Append(@, c)]
                   ELSE heap[o]]
    /\ added' = [added EXCEPT ![f] = Append(@, c)]
    /\ nAdded' = nAdded + 1
    /\ UNCHANGED <<stack, console, status, calls, visited>>
    /\ UNCHANGED patterns

\* f.add(c); only a Folder has add
add(f, c) ==
    /\ status = "idle"
    /\ f \in Refs /\ c \in Refs
    /\ IsFolder(f)
    /\ heap' = [heap EXCEPT ![f].children = push(@, c)]
    /\ added' = [added EXCEPT ![f] = Append(@, c)]
    /\ nAdded' = nAdded + 1
    /\ UNCHANGED <<stack, console, status, calls, visited>>
    /\ UNCHANGED patterns

\* a frame of o.showDetails(): pc is the statement of Body it is at, i the
\* number of children its forEach has called
Frame(o) == [self |-> o, pc |-> 1, i |-> 0]

Top == stack[Len(stack)]

SetTop(fr) == [stack EXCEPT ![Len(stack)] = fr]

\* the statement the running showDetails is at, "end" past its last one
Stmt ==
    IF Top.pc <= Len(Body(heap[Top.self].kind))
    THEN Body(heap[Top.self].kind)[Top.pc]
    ELSE "end"

\* the client calls r.showDetails()
showDetails(r) ==
    /\ status = "idle"
    /\ r \in Refs
    /\ status' = "running"
    /\ stack' = <<Frame(r)>>
    /\ calls' = Append(calls, [root |-> r, start |-> Len(console), adds |-> nAdded])
    /\ UNCHANGED <<heap, console, visited, added, nAdded>>
    /\ UNCHANGED patterns

\* a console.log that stores the line it wrote as the object's name
LogRenames ==
    /\ status = "running"
    /\ Stmt = "log"
    /\ console' = Append(console, LineOf(Top.self))
    /\ visited' = Append(visited, Top.self)
    /\ heap' = [heap EXCEPT ![Top.self].name = LineOf(Top.self)]
    /\ stack' = SetTop([Top EXCEPT !.pc = @ + 1])
    /\ UNCHANGED <<status, calls, added, nAdded>>
    /\ UNCHANGED patterns

\* console.log(...) of the running showDetails
Log ==
    /\ status = "running"
    /\ Stmt = "log"
    /\ console' = Append(console, LineOf(Top.self))
    /\ visited' = Append(visited, Top.self)
    /\ stack' = SetTop([Top EXCEPT !.pc = @ + 1])
    /\ UNCHANGED <<heap, status, calls, added, nAdded>>
    /\ UNCHANGED patterns

\* a forEach whose callback calls this.showDetails() instead of the child's
EachSelf ==
    /\ status = "running"
    /\ Stmt = "each"
    /\ Top.i < Len(heap[Top.self].children)
    /\ Len(stack) < MaxStack
    /\ stack' = Append(SetTop([Top EXCEPT !.i = @ + 1]), Frame(Top.self))
    /\ UNCHANGED <<heap, console, status, calls, visited, added, nAdded>>
    /\ UNCHANGED patterns

\* this.children.forEach((child) => child.showDetails()): the call of the
\* next child
Each ==
    /\ status = "running"
    /\ Stmt = "each"
    /\ Top.i < Len(heap[Top.self].children)
    /\ Len(stack) < MaxStack
    /\ stack' = Append(SetTop([Top EXCEPT !.i = @ + 1]),
                       Frame(heap[Top.self].children[Top.i + 1]))
    /\ UNCHANGED <<heap, console, status, calls, visited, added, nAdded>>
    /\ UNCHANGED patterns

\* forEach has called every child
EndEach ==
    /\ status = "running"
    /\ Stmt = "each"
    /\ Top.i >= Len(heap[Top.self].children)
    /\ stack' = SetTop([Top EXCEPT !.pc = @ + 1])
    /\ UNCHANGED <<heap, console, status, calls, visited, added, nAdded>>
    /\ UNCHANGED patterns

\* the call of the next child finds the call stack full: a RangeError that
\* nothing catches ends the program
Overflow ==
    /\ status = "running"
    /\ Stmt = "each"
    /\ Top.i < Len(heap[Top.self].children)
    /\ Len(stack) >= MaxStack
    /\ status' = "crashed"
    /\ stack' = <<>>
    /\ UNCHANGED <<heap, console, calls, visited, added, nAdded>>
    /\ UNCHANGED patterns

\* showDetails returns to its caller
Return ==
    /\ status = "running"
    /\ Stmt = "end"
    /\ stack' = SubSeq(stack, 1, Len(stack) - 1)
    /\ status' = IF Len(stack) = 1 THEN "idle" ELSE "running"
    /\ UNCHANGED <<heap, console, calls, visited, added, nAdded>>
    /\ UNCHANGED patterns

\* one step of the running showDetails
Step == Log \/ Each \/ EndEach \/ Overflow \/ Return

\* ----------------------------------------- the other examples' states

\* DatabaseConnectionWithSingleton.instance before the first getInstance
NoInstance == [id |-> 0, connectionString |-> ""]

\* the Singleton program at its start: no instance, no constructor run, no
\* getInstance call made, nothing on its console
SingletonStart == [instance |-> NoInstance, constructed |-> 0, gets |-> <<>>, out |-> <<>>]

\* the Factory client at its start: no create call made, nothing created, no
\* Error thrown
FactoryStart == [asked |-> <<>>, made |-> <<>>, thrown |-> ""]

\* a new NewsPublisher: private observers: Observer[] = []; with the history
\* of the calls made on it, of the update calls it made, and the console
PublisherStart == [observers |-> <<>>, ops |-> <<>>, updates |-> <<>>, out |-> <<>>]

\* the Decorator client at its start: no character constructed, and the
\* result of its latest getDescription() / getPowerLevel() pair, none yet
NoShown == [object |-> 0, description |-> "", power |-> 0]
CharacterStart == [objects |-> <<>>, shown |-> NoShown]

\* a new HouseBuilder's props
BuilderProps == [type |-> "", floors |-> 0, rooms |-> 0, roofStyle |-> ""]

\* the Builder client at its start: two builders constructed, no set call
\* made, no house built
BuilderStart == [props |-> <<BuilderProps, BuilderProps>>, sets |-> <<>>, houses |-> <<>>]

\* ------------------------------------------------------- specifications

Init ==
    /\ heap = <<>>
    /\ stack = <<>>
    /\ console = <<>>
    /\ status = "idle"
    /\ calls = <<>>
    /\ visited = <<>>
    /\ added = <<>>
    /\ nAdded = 0
    /\ singleton = SingletonStart
    /\ factory = FactoryStart
    /\ publisher = PublisherStart
    /\ character = CharacterStart
    /\ builder = BuilderStart

\* the client constructs an object or adds one to a folder
Build ==
    \/ \E n \in Names : Len(heap) < MaxNodes /\ NewTextFile(n)
    \/ \E n \in Names : Len(heap) < MaxNodes /\ NewFolder(n)
    \/ \E f \in Refs, c \in Refs : nAdded < MaxAdds /\ add(f, c)

\* a client that constructs, adds and shows in any order
Next ==
    \/ Build
    \/ \E r \in Refs : Len(calls) < MaxShows /\ showDetails(r)
    \/ Step

Spec == Init /\ [][Next]_vars

\* a client of the usage script's shape: it builds any structure, then calls
\* showDetails() on one of its objects
BuildThenShow ==
    \/ calls = <<>> /\ Build
    \/ \E r \in Refs : calls = <<>> /\ showDetails(r)
    \/ Step

\* the engine keeps running a call that has begun
SpecLive == Init /\ [][BuildThenShow]_vars /\ WF_vars(Step)

\* the usage script: rootFolder is 1, textFile 2, excelFile 3, subFolder 4
Usage ==
    \/ Len(heap) = 0 /\ NewFolder("main_folder")
    \/ Len(heap) = 1 /\ NewTextFile("document.txt")
    \/ Len(heap) = 2 /\ NewTextFile("report.xlsx")
    \/ Len(heap) = 3 /\ NewFolder("images")
    \/ Len(heap) = 4 /\ nAdded = 0 /\ add(1, 2)
    \/ Len(heap) = 4 /\ nAdded = 1 /\ add(1, 3)
    \/ Len(heap) = 4 /\ nAdded = 2 /\ add(1, 4)

\* the nesting scenario continues the script: photo.png, object 5, is added
\* to subFolder
UsageNesting ==
    \/ Len(heap) = 4 /\ nAdded = 3 /\ NewTextFile("photo.png")
    \/ Len(heap) = 5 /\ nAdded = 3 /\ add(4, 5)

\* rootFolder.showDetails(), between any two statements of the script
UsageShow == Len(heap) >= 1 /\ Len(calls) < MaxUsageShows /\ showDetails(1)

\* the script's structure is acyclic and three deep: its calls fit the stack
UsageStep == Log \/ Each \/ EndEach \/ Return

UsageNext == Usage \/ UsageNesting \/ UsageShow \/ UsageStep

SpecUsage == Init /\ [][UsageNext]_vars

\* ------------------------------------------------- reading the structure

\* the children sequence of an object (a TextFile has none)
Children(o) == heap[o].children

ChildSet(o) == {Children(o)[k] : k \in 1..Len(Children(o))}

\* the objects reachable from the objects of S through children sequences
RECURSIVE Reach(_)
Reach(S) ==
    LET T == S \cup UNION {ChildSet(o) : o \in S}
    IN  IF T = S THEN S ELSE Reach(T)

\* the descendants of o: what its children reach
Descendants(o) == Reach(ChildSet(o))

\* no Folder reachable from r is reachable from itself
Acyclic(r) == \A o \in Reach({r}) : o \notin Descendants(o)

RECURSIVE SumSeq(_)
SumSeq(q) == IF q = <<>> THEN 0 ELSE Head(q) + SumSeq(Tail(q))

\* the number of paths from r down to o, in an acyclic structure
RECURSIVE NumPaths(_, _)
NumPaths(r, o) ==
    IF r = o THEN 1
    ELSE SumSeq([k \in 1..Len(Children(r)) |-> NumPaths(Children(r)[k], o)])

\* the number of objects reachable from r, each counted once per path
RECURSIVE Size(_)
Size(r) == 1 + SumSeq([k \in 1..Len(Children(r)) |-> Size(Children(r)[k])])

\* a tree: acyclic, and one path from r to each object it reaches
IsTree(r) == Acyclic(r) /\ \A o \in Reach({r}) : NumPaths(r, o) = 1

\* the depth of o below r in a tree: r is at 0, a child of a depth-d folder at d + 1
RECURSIVE Depth(_, _)
Depth(r, o) ==
    IF r = o THEN 0
    ELSE LET k == CHOOSE j \in 1..Len(Children(r)) : o \in Reach({Children(r)[j]})
         IN  1 + Depth(Children(r)[k], o)

RECURSIVE Spaces(_)
Spaces(k) == IF k = 0 THEN "" ELSE " " \o Spaces(k - 1)

\* --------------------------------------------------- reading the history

\* the client's latest showDetails call
Last == calls[Len(calls)]

\* the latest call has returned, and no add was made since it began
Settled == status = "idle" /\ calls # <<>> /\ Last.adds = nAdded

\* the console lines of the client's k-th call
Output(k) ==
    SubSeq(console, calls[k].start + 1,
           IF k < Len(calls) THEN calls[k + 1].start ELSE Len(console))

\* the objects that wrote them, line by line
VisitedBy(k) ==
    SubSeq(visited, calls[k].start + 1,
           IF k < Len(calls) THEN calls[k + 1].start ELSE Len(visited))

LastOutput == Output(Len(calls))

LastVisited == VisitedBy(Len(calls))

\* the number of lines of the latest call that o wrote
Occurrences(o) == Cardinality({i \in 1..Len(LastVisited) : LastVisited[i] = o})

\* ---------------------------------------------------------------- claims

\* C1: after showDetails() on the root of a tree has returned, every object
\* of the tree has its line, and the line of an object comes before the line
\* of each of its descendants.
C1_PreOrder ==
    (Settled /\ IsTree(Last.root)) =>
        \A n \in Reach({Last.root}) :
            /\ \E i \in 1..Len(LastVisited) : LastVisited[i] = n
            /\ \A m \in Descendants(n) :
                /\ \E j \in 1..Len(LastVisited) : LastVisited[j] = m
                /\ \A i, j \in 1..Len(LastVisited) :
                       (LastVisited[i] = n /\ LastVisited[j] = m) => i < j

\* a tree two levels deep has been shown
C1_Witness ==
    /\ Settled
    /\ IsTree(Last.root)
    /\ \E m \in Descendants(Last.root) : Descendants(m) # {}

C3_Indentation ==
    (Settled /\ IsTree(Last.root) /\ IsFolder(Last.root)) =>
        \A i \in 1..Len(LastOutput) :
            LastOutput[i] =
                Spaces(4 * Depth(Last.root, LastVisited[i])) \o getName(LastVisited[i])

\* the tree of the usage script is built: main_folder holds document.txt,
\* report.xlsx and the empty folder images, added in that order
UsageTree ==
    /\ Len(heap) >= 4
    /\ heap[1] = [kind |-> "Folder", name |-> "main_folder", children |-> <<2, 3, 4>>]
    /\ heap[2] = [kind |-> "TextFile", name |-> "document.txt", children |-> <<>>]
    /\ heap[3] = [kind |-> "TextFile", name |-> "report.xlsx", children |-> <<>>]
    /\ heap[4] = [kind |-> "Folder", name |-> "images", children |-> <<>>]

\* C4: rootFolder.showDetails() on the tree of the usage script writes
\* main_folder and, indented by four spaces each, document.txt, report.xlsx
\* and images.
C4_UsageOutput ==
    (UsageTree /\ Settled /\ Last.root = 1) =>
        LastOutput = <<"main_folder", "    document.txt", "    report.xlsx", "    images">>

\* photo.png has been added to images after the tree was built and shown
UsageNested ==
    /\ Len(heap) = 5
    /\ heap[1] = [kind |-> "Folder", name |-> "main_folder", children |-> <<2, 3, 4>>]
    /\ heap[2] = [kind |-> "TextFile", name |-> "document.txt", children |-> <<>>]
    /\ heap[3] = [kind |-> "TextFile", name |-> "report.xlsx", children |-> <<>>]
    /\ heap[4] = [kind |-> "Folder", name |-> "images", children |-> <<5>>]
    /\ heap[5] = [kind |-> "TextFile", name |-> "photo.png", children |-> <<>>]
    /\ Len(calls) = 2
    /\ calls[1].adds = 3

\* C5: the second rootFolder.showDetails(), after photo.png was added to
\* images, writes the four lines of the first with photo.png, indented by
\* eight spaces, right after images; the document.txt and report.xlsx lines
\* are those of the first output.
C5_NestedOutput ==
    (UsageNested /\ Settled /\ Last.root = 1) =>
        /\ Output(2) = <<"main_folder", "    document.txt", "    report.xlsx",
                         "    images", "        photo.png">>
        /\ Output(2)[2] = Output(1)[2]
        /\ Output(2)[3] = Output(1)[3]

\* C6: the output of showDetails() on an acyclic structure has as many lines
\* as the structure has objects, each counted once per path from the root,
\* and each line is the line of the object visited there.
C6_OneLinePerNode ==
    (Settled /\ Acyclic(Last.root)) =>
        /\ Len(LastOutput) = Size(Last.root)
        /\ \A i \in 1..Len(LastOutput) : LastOutput[i] = LineOf(LastVisited[i])

\* an object that its root reaches along two paths has been shown
C6_Witness ==
    /\ Settled
    /\ Acyclic(Last.root)
    /\ \E o \in Refs : NumPaths(Last.root, o) >= 2
    /\ Len(LastOutput) >= 3

\* C7: a running TextFile.showDetails takes two steps wherever it was called
\* from: it writes one line, its name after four spaces, and it returns,
\* with no call in between.
C7_LeafTerminal ==
    [][(status = "running" /\ IsTextFile(Top.self)) =>
          \/ /\ Top.pc = 1
             /\ console' = Append(console, "    " \o getName(Top.self))
             /\ Len(stack') = Len(stack)
             /\ stack'[Len(stack)].pc = 2
          \/ /\ Top.pc = 2
             /\ console' = console
             /\ stack' = SubSeq(stack, 1, Len(stack) - 1)]_vars

\* a TextFile called from a Folder's forEach has written its line
C7_Witness ==
    /\ status = "running"
    /\ Len(stack) >= 2
    /\ IsTextFile(Top.self)
    /\ Top.pc = 2
    /\ console[Len(console)] = "    " \o getName(Top.self)

\* C8: a Folder on which add was never called has no children, and
\* showDetails() on a Folder without children writes one line, its name.
C8_EmptyContainer ==
    /\ \A f \in Refs : (IsFolder(f) /\ added[f] = <<>>) => Children(f) = <<>>
    /\ (Settled /\ IsFolder(Last.root) /\ Children(Last.root) = <<>>) =>
           LastOutput = <<getName(Last.root)>>

\* a Folder without children has been shown
C8_Witness ==
    /\ Settled
    /\ IsFolder(Last.root)
    /\ Children(Last.root) = <<>>
    /\ Len(LastOutput) = 1

\* C9: the children sequence of a folder is the sequence of the arguments of
\* the add calls on it, in call order, repeated arguments included; and an
\* acyclic showDetails() prints every object once per occurrence.
C9_AddAppends ==
    /\ \A f \in Refs : Children(f) = added[f]
    /\ (Settled /\ Acyclic(Last.root)) =>
           \A o \in Refs : Occurrences(o) = NumPaths(Last.root, o)

\* a folder to which the same child was added twice has been shown
C9_Witness ==
    /\ Settled
    /\ Len(Children(Last.root)) = 2
    /\ Children(Last.root)[1] = Children(Last.root)[2]
    /\ Children(Last.root)[1] # Last.root
    /\ Occurrences(Children(Last.root)[1]) = 2

\* C10: a showDetails() call on an object from which no Folder reaches
\* itself returns, having visited exactly the objects the root reaches.
C10_Terminates ==
    (status = "running" /\ Acyclic(Last.root))
        ~> (/\ Settled
            /\ {LastVisited[i] : i \in 1..Len(LastVisited)} = Reach({Last.root}))

\* a call on a folder with descendants two levels down has returned
C10_Witness ==
    /\ Settled
    /\ Acyclic(Last.root)
    /\ \E m \in Descendants(Last.root) : Descendants(m) # {}
    /\ {LastVisited[i] : i \in 1..Len(LastVisited)} = Reach({Last.root})
    /\ Len(LastVisited) = 3

\* the client of the cycle cases: it constructs folders, fewer than the
\* stack has frames, adds any of them to any of them, itself included, and
\* then calls showDetails() on one
MaxCycleAdds == 3

CycleBuild ==
    \/ \E n \in Names : calls = <<>> /\ Len(heap) + 1 < MaxStack /\ NewFolder(n)
    \/ \E f, c \in Refs : calls = <<>> /\ nAdded < MaxCycleAdds /\ add(f, c)

CycleNext ==
    \/ CycleBuild
    \/ \E r \in Refs : calls = <<>> /\ showDetails(r)
    \/ Step

SpecCycle == Init /\ [][CycleNext]_vars

\* add accepts a folder as its own child and as a child of one of its
\* descendants
AddAcceptsCycles ==
    status = "idle" =>
        \A f \in Refs :
            IsFolder(f) =>
                /\ ENABLED add(f, f)
                /\ \A d \in Descendants(f) : IsFolder(d) => ENABLED add(d, f)

\* C11 as claimed: add accepts a folder as its own child and as a child of
\* one of its descendants; a showDetails() call that has returned was not on
\* a folder reachable from itself; and a call on such a folder that ended in
\* the RangeError had written that folder's own line more than once.
C11_CyclesDiverge ==
    /\ AddAcceptsCycles
    /\ Settled => Last.root \notin Descendants(Last.root)
    /\ (status = "crashed" /\ Last.root \in Descendants(Last.root)) =>
           Occurrences(Last.root) >= 2

\* C11 as amended: add accepts a folder as its own child and as a child of
\* one of its descendants; a showDetails() call that has returned was not on
\* a folder reachable from itself; and a call on such a folder that ended in
\* the RangeError had written more than once the line of some folder that is
\* reachable from itself, which need not be the folder the call was made on.
C11_CyclesDivergeSomewhere ==
    /\ AddAcceptsCycles
    /\ Settled => Last.root \notin Descendants(Last.root)
    /\ (status = "crashed" /\ Last.root \in Descendants(Last.root)) =>
           \E o \in Reach({Last.root}) :
               o \in Descendants(o) /\ Occurrences(o) >= 2

\* folder 1 reaches itself through folder 2, whose first child is folder 2
\* itself: the call on folder 1 ended in the RangeError with one line of
\* folder 1 and the rest of folder 2
C11_Witness ==
    /\ status = "crashed"
    /\ Children(1) = <<2>> /\ Children(2) = <<2, 1>>
    /\ Last.root = 1
    /\ Occurrences(1) = 1
    /\ Occurrences(2) >= 2

\* ------------------------------------------------ the Singleton example

MaxGets == 4

ConnStrings == {"postgres://localhost:5432", "mysql://localhost:3306", "sqlite://memory"}

\* a getInstance without the check
alwaysNew(instance) == TRUE

\* !DatabaseConnectionWithSingleton.instance
needsInstance(instance) == instance.id = 0

\* a getInstance that connects again when the string it is given differs
\* from the instance's
getInstanceReconnect(connectionString) ==
    LET fresh == needsInstance(singleton.instance)
        again == ~fresh /\ singleton.instance.connectionString # connectionString
        made == [id |-> singleton.constructed + 1, connectionString |-> connectionString]
        result == IF fresh THEN made
                  ELSE [singleton.instance EXCEPT !.connectionString = connectionString]
        constructed == IF fresh THEN singleton.constructed + 1 ELSE singleton.constructed
    IN  /\ singleton' =
               [instance |-> result,
                constructed |-> constructed,
                gets |-> Append(singleton.gets,
                                [arg |-> connectionString, result |-> result,
                                 constructed |-> constructed]),
                out |-> IF fresh \/ again
                        THEN Append(singleton.out, "Connecting to " \o connectionString)
                        ELSE singleton.out]
        /\ UNCHANGED <<composite, factory, publisher, character, builder>>

\* DatabaseConnectionWithSingleton.getInstance(connectionString): the private
\* constructor, when it runs, makes the next object and writes its line
getInstance(connectionString) ==
    LET fresh == needsInstance(singleton.instance)
        made == [id |-> singleton.constructed + 1, connectionString |-> connectionString]
        result == IF fresh THEN made ELSE singleton.instance
        constructed == IF fresh THEN singleton.constructed + 1 ELSE singleton.constructed
    IN  /\ singleton' =
               [instance |-> result,
                constructed |-> constructed,
                gets |-> Append(singleton.gets,
                                [arg |-> connectionString, result |-> result,
                                 constructed |-> constructed]),
                out |-> IF fresh
                        THEN Append(singleton.out, "Connecting to " \o connectionString)
                        ELSE singleton.out]
        /\ UNCHANGED <<composite, factory, publisher, character, builder>>

\* a client that calls getInstance with any connection strings
SingletonNext ==
    \E cs \in ConnStrings : Len(singleton.gets) < MaxGets /\ getInstance(cs)

SpecSingleton == Init /\ [][SingletonNext]_vars

\* C12: every getInstance call returned the same instance, and the
\* constructor had run exactly once after the first call and after every
\* later one.
C12_Singleton ==
    /\ \A i, j \in 1..Len(singleton.gets) :
           singleton.gets[i].result.id = singleton.gets[j].result.id
    /\ \A i \in 1..Len(singleton.gets) :
           /\ singleton.gets[i].constructed = 1
           /\ singleton.gets[i].result.id # 0
    /\ singleton.constructed = IF singleton.gets = <<>> THEN 0 ELSE 1

\* three calls with three different connection strings have been made
C12_Witness ==
    /\ Len(singleton.gets) >= 3
    /\ singleton.gets[1].arg # singleton.gets[2].arg
    /\ singleton.gets[2].arg # singleton.gets[3].arg
    /\ singleton.gets[1].arg # singleton.gets[3].arg
    /\ singleton.gets[3].result = singleton.gets[1].result

\* -------------------------------------------------- the Factory example

MaxCreates == 3

\* the values a caller may pass as type, the declared ones and others
Types == {"car", "bike", "dog", "cat", "truck"}

\* a create without the final throw: an unknown type falls through
FactoryCreateNoThrow(type) ==
    IF type = "car" THEN [returned |-> "Car", error |-> ""]
    ELSE IF type = "bike" THEN [returned |-> "Bike", error |-> ""]
    ELSE [returned |-> "undefined", error |-> ""]

\* Factory.create(type): the class of the object returned, or the message
\* of the Error thrown
FactoryCreate(type) ==
    IF type = "car" THEN [returned |-> "Car", error |-> ""]
    ELSE IF type = "bike" THEN [returned |-> "Bike", error |-> ""]
    ELSE [returned |-> "", error |-> "Unknown vehicle type"]

\* AnimalFactory.create(type)
AnimalFactoryCreate(type) ==
    IF type = "dog" THEN [returned |-> "Dog", error |-> ""]
    ELSE IF type = "cat" THEN [returned |-> "Cat", error |-> ""]
    ELSE [returned |-> "", error |-> "Unknown animal type"]

\* the client's statement const x = <class>.create(type): the object is
\* kept, or the Error, which nothing catches, ends the program
Create(class, type, outcome) ==
    /\ factory.thrown = ""
    /\ factory' =
           [asked |-> Append(factory.asked, [class |-> class, type |-> type]),
            made |-> IF outcome.error = ""
                     THEN Append(factory.made, outcome.returned)
                     ELSE factory.made,
            thrown |-> outcome.error]
    /\ UNCHANGED <<composite, singleton, publisher, character, builder>>

FactoryNext ==
    \/ \E t \in Types :
           Len(factory.asked) < MaxCreates /\ Create("Factory", t, FactoryCreate(t))
    \/ \E t \in Types :
           Len(factory.asked) < MaxCreates
               /\ Create("AnimalFactory", t, AnimalFactoryCreate(t))

SpecFactory == Init /\ [][FactoryNext]_vars

\* what the claim says create does for a class and a type
C13_Expected(class, type) ==
    IF class = "Factory"
    THEN IF type = "car" THEN "Car"
         ELSE IF type = "bike" THEN "Bike" ELSE "Error: Unknown vehicle type"
    ELSE IF type = "dog" THEN "Dog"
         ELSE IF type = "cat" THEN "Cat" ELSE "Error: Unknown animal type"

\* C13: each create call returned a Car for 'car', a Bike for 'bike', a Dog
\* for 'dog', a Cat for 'cat', in the class that knows the type, and any
\* other call threw its class's Error and returned no object.
C13_FactoryCreate ==
    /\ Len(factory.made) = Len(factory.asked) - (IF factory.thrown = "" THEN 0 ELSE 1)
    /\ \A i \in 1..Len(factory.asked) :
           LET want == C13_Expected(factory.asked[i].class, factory.asked[i].type)
           IN  IF i <= Len(factory.made)
               THEN factory.made[i] = want
               ELSE "Error: " \o factory.thrown = want

\* after a Car and a Cat were created, a create call with a type its class
\* does not know has thrown
C13_Witness ==
    /\ factory.made = <<"Car", "Cat">>
    /\ factory.thrown = "Unknown vehicle type"
    /\ factory.asked[3] = [class |-> "Factory", type |-> "dog"]

\* ------------------------------------------------- the Observer example

MaxOps == 5

\* the NewsSubscriber objects, by identity, and the name each was built
\* with: two different subscribers may carry the same name
Subscribers == 1..3
SubscriberNames == <<"Charlie", "Diana", "Charlie">>

Articles == {"Latest Article: Understanding the Observer Pattern",
             "Update: Observer Pattern in Real Life Scenarios"}

\* NewsSubscriber.update(article): the line it logs
update(observer, article) ==
    SubscriberNames[observer] \o " was notified of a new article: " \o article

\* an unregister that removes one occurrence only, the first
RECURSIVE filterFirst(_, _)
filterFirst(observers, observer) ==
    IF observers = <<>> THEN <<>>
    ELSE IF Head(observers) = observer THEN Tail(observers)
    ELSE <<Head(observers)>> \o filterFirst(Tail(observers), observer)

\* observers.filter((obs) => obs !== observer)
filter(observers, observer) == SelectSeq(observers, LAMBDA obs : obs # observer)

\* a forEach that walks the array from its end
forEachReversed(observers) ==
    [i \in 1..Len(observers) |-> observers[Len(observers) + 1 - i]]

\* observers.forEach(...): the elements in the order the callback gets them
forEach(observers) == observers

\* the publisher's calls so far, each with its argument
Op(op, observer, article) == [op |-> op, observer |-> observer, article |-> article]

registerObserver(observer) ==
    /\ publisher' =
           [publisher EXCEPT
                !.observers = Append(@, observer),
                !.ops = Append(@, Op("register", observer, ""))]
    /\ UNCHANGED <<composite, singleton, factory, character, builder>>

unregisterObserver(observer) ==
    /\ publisher' =
           [publisher EXCEPT
                !.observers = filter(@, observer),
                !.ops = Append(@, Op("unregister", observer, ""))]
    /\ UNCHANGED <<composite, singleton, factory, character, builder>>

\* notifyObservers(article): update runs on each element in turn; update
\* only logs, so the array is the same throughout the walk
notifyObservers(article) ==
    LET order == forEach(publisher.observers)
        call == Len(publisher.ops) + 1
    IN  /\ publisher' =
               [publisher EXCEPT
                    !.ops = Append(@, Op("notify", 0, article)),
                    !.updates = @ \o [i \in 1..Len(order) |->
                                         [call |-> call, observer |-> order[i],
                                          article |-> article]],
                    !.out = @ \o [i \in 1..Len(order) |-> update(order[i], article)]]
        /\ UNCHANGED <<composite, singleton, factory, character, builder>>

ObserverNext ==
    \/ \E o \in Subscribers : Len(publisher.ops) < MaxOps /\ registerObserver(o)
    \/ \E o \in Subscribers : Len(publisher.ops) < MaxOps /\ unregisterObserver(o)
    \/ \E a \in Articles : Len(publisher.ops) < MaxOps /\ notifyObservers(a)

SpecObserver == Init /\ [][ObserverNext]_vars

\* the notifyObservers calls so far, as positions in the call history
Notifications == {n \in 1..Len(publisher.ops) : publisher.ops[n].op = "notify"}

\* the update calls that notification n made, in the order it made them
UpdatesOf(n) == SelectSeq(publisher.updates, LAMBDA u : u.call = n)

\* the observers that notification n reached, in order
ReachedBy(n) == [i \in 1..Len(UpdatesOf(n)) |-> UpdatesOf(n)[i].observer]

\* the registrations in force when call n is made: the register calls
\* before n whose observer has not been unregistered since
LiveRegistrations(n) ==
    {j \in 1..(n - 1) :
        /\ publisher.ops[j].op = "register"
        /\ \A u \in (j + 1)..(n - 1) :
               ~(publisher.ops[u].op = "unregister"
                   /\ publisher.ops[u].observer = publisher.ops[j].observer)}

\* C14: each notifyObservers(article) made exactly one update call per
\* registration in force, in the order of the registrations, each with the
\* article of the notification, and no other update call.
C14_NotifyInOrder ==
    \A n \in Notifications :
        LET live == LiveRegistrations(n)
            rank(j) == Cardinality({i \in live : i <= j})
        IN  /\ Len(UpdatesOf(n)) = Cardinality(live)
            /\ \A j \in live :
                   /\ UpdatesOf(n)[rank(j)].observer = publisher.ops[j].observer
                   /\ UpdatesOf(n)[rank(j)].article = publisher.ops[n].article

\* subscriber 1 registered first, was unregistered and registered again
\* after subscriber 2: the notification reached 2, then 1
C14_Witness ==
    /\ Len(publisher.ops) = 5
    /\ publisher.ops[1] = Op("register", 1, "")
    /\ publisher.ops[3] = Op("unregister", 1, "")
    /\ publisher.ops[5].op = "notify"
    /\ ReachedBy(5) = <<2, 1>>

\* the observers unregistered by the calls strictly between m and n
UnregisteredBetween(m, n) ==
    {publisher.ops[u].observer :
        u \in {v \in (m + 1)..(n - 1) : publisher.ops[v].op = "unregister"}}

\* no register call lies strictly between m and n
NoRegisterBetween(m, n) ==
    \A v \in (m + 1)..(n - 1) : publisher.ops[v].op # "register"

\* C15: a notification does not reach an observer whose latest register or
\* unregister call was an unregister; and of two notifications with only
\* unregister calls between them, the later one reaches exactly those the
\* earlier one reached that were not unregistered, in the same order.
C15_Unsubscribed ==
    /\ \A n \in Notifications :
           \A u \in 1..(n - 1) :
               (/\ publisher.ops[u].op = "unregister"
                /\ \A r \in (u + 1)..(n - 1) :
                       ~(publisher.ops[r].op = "register"
                           /\ publisher.ops[r].observer = publisher.ops[u].observer))
               => \A i \in 1..Len(ReachedBy(n)) :
                      ReachedBy(n)[i] # publisher.ops[u].observer
    /\ \A m \in Notifications :
           \A n \in Notifications :
               (m < n /\ NoRegisterBetween(m, n))
               => ReachedBy(n) =
                      SelectSeq(ReachedBy(m),
                                LAMBDA o : o \notin UnregisteredBetween(m, n))

\* the usage's run: two subscribers notified, the first unregistered, and
\* the next notification reached the second only
C15_Witness ==
    /\ Len(publisher.ops) = 5
    /\ publisher.ops[4] = Op("unregister", 1, "")
    /\ ReachedBy(3) = <<1, 2>>
    /\ ReachedBy(5) = <<2>>
    /\ publisher.out[3] =
           "Diana was notified of a new article: Update: Observer Pattern in Real Life Scenarios"

\* ------------------------------------------------ the Decorator example

MaxCharacters == 4

CharacterNames == {"Hero", "Mage"}

DecoratorClasses == {"ShieldDecorator", "WeaponDecorator", "SpeedBoostDecorator"}

\* the Character objects constructed so far
Characters == 1..Len(character.objects)

\* new GameCharacter(name)
GameCharacter(name) == [class |-> "GameCharacter", name |-> name, character |-> 0]

\* new <class>(character), a PowerUpDecorator around an existing Character
PowerUpDecorator(class, c) == [class |-> class, name |-> "", character |-> c]

RECURSIVE getDescription(_)
getDescription(o) ==
    LET self == character.objects[o]
    IN  IF self.class = "GameCharacter" THEN self.name
        ELSE IF self.class = "ShieldDecorator"
        THEN getDescription(self.character) \o " with a shield"
        ELSE IF self.class = "WeaponDecorator"
        THEN getDescription(self.character) \o " with a weapon"
        ELSE getDescription(self.character) \o " with a speed boost"

\* a decorator that adds its bonus to the base power, not to the power of
\* the character it wraps
getPowerLevelOfBase(o) ==
    LET self == character.objects[o]
    IN  IF self.class = "GameCharacter" THEN 10
        ELSE IF self.class = "ShieldDecorator" THEN 10 + 15
        ELSE IF self.class = "WeaponDecorator" THEN 10 + 20
        ELSE 10 + 5

RECURSIVE getPowerLevel(_)
getPowerLevel(o) ==
    LET self == character.objects[o]
    IN  IF self.class = "GameCharacter" THEN 10
        ELSE IF self.class = "ShieldDecorator"
        THEN getPowerLevel(self.character) + 15
        ELSE IF self.class = "WeaponDecorator"
        THEN getPowerLevel(self.character) + 20
        ELSE getPowerLevel(self.character) + 5

NewCharacter(object) ==
    /\ Len(character.objects) < MaxCharacters
    /\ character' = [character EXCEPT !.objects = Append(@, object)]
    /\ UNCHANGED <<composite, singleton, factory, publisher, builder>>

\* the client's two log statements about one character: its description
\* and its power level
ShowCharacter(o) ==
    /\ character' =
           [character EXCEPT
                !.shown = [object |-> o, description |-> getDescription(o),
                           power |-> getPowerLevel(o)]]
    /\ UNCHANGED <<composite, singleton, factory, publisher, builder>>

DecoratorNext ==
    \/ \E name \in CharacterNames : NewCharacter(GameCharacter(name))
    \/ \E class \in DecoratorClasses :
           \E c \in Characters : NewCharacter(PowerUpDecorator(class, c))
    \/ \E o \in Characters : ShowCharacter(o)

SpecDecorator == Init /\ [][DecoratorNext]_vars

\* the objects from o inwards to the GameCharacter at the core
RECURSIVE Inwards(_)
Inwards(o) ==
    IF character.objects[o].class = "GameCharacter" THEN <<o>>
    ELSE <<o>> \o Inwards(character.objects[o].character)

\* the decorators around the core of o in the order they were applied,
\* innermost first, by class
Applied(o) ==
    LET inw == Inwards(o)
        n == Len(inw) - 1
    IN  [i \in 1..n |-> character.objects[inw[n + 1 - i]].class]

\* the name of the GameCharacter at the core of o
CoreName(o) == character.objects[Inwards(o)[Len(Inwards(o))]].name

\* the claim's table of bonuses and suffixes
C16_Bonus(class) ==
    IF class = "ShieldDecorator" THEN 15
    ELSE IF class = "WeaponDecorator" THEN 20 ELSE 5

C16_Suffix(class) ==
    IF class = "ShieldDecorator" THEN " with a shield"
    ELSE IF class = "WeaponDecorator" THEN " with a weapon" ELSE " with a speed boost"

RECURSIVE C16_Suffixes(_)
C16_Suffixes(classes) ==
    IF classes = <<>> THEN ""
    ELSE C16_Suffix(Head(classes)) \o C16_Suffixes(Tail(classes))

\* C16: the power level the client read is 10 plus 15 per shield, 20 per
\* weapon and 5 per speed boost in the chain, and the description it read
\* is the core's name followed by the suffixes of the decorators, innermost
\* first.
C16_DecoratorChain ==
    character.shown.object # 0 =>
        LET o == character.shown.object
            count(class) ==
                Cardinality({i \in 1..Len(Applied(o)) : Applied(o)[i] = class})
        IN  /\ character.shown.power =
                   10 + 15 * count("ShieldDecorator") + 20 * count("WeaponDecorator")
                      + 5 * count("SpeedBoostDecorator")
            /\ character.shown.description = CoreName(o) \o C16_Suffixes(Applied(o))

\* the usage's fully powered hero, shown
C16_Witness ==
    /\ character.shown.object = 4
    /\ Applied(4) = <<"ShieldDecorator", "WeaponDecorator", "SpeedBoostDecorator">>
    /\ character.shown.description = "Hero with a shield with a weapon with a speed boost"
    /\ character.shown.power = 50

\* -------------------------------------------------- the Builder example

MaxBuilderOps == 4

\* the HouseBuilder objects, by identity
Builders == 1..2

Keys == {"type", "floors", "rooms", "roofStyle"}

\* the values a caller passes for each key
Values ==
    [type |-> {"modern", "cottage"}, floors |-> {1, 2}, rooms |-> {3},
     roofStyle |-> {"flat"}]

\* new HouseWithBuilder(type, floors, rooms, roofStyle)
HouseWithBuilder(type, floors, rooms, roofStyle) ==
    [type |-> type, floors |-> floors, rooms |-> rooms, roofStyle |-> roofStyle]

\* a set that keeps a value already given
assignIfUnset(props, key, value) ==
    IF props[key] = BuilderProps[key] THEN [props EXCEPT ![key] = value] ELSE props

\* this.props[key] = value
assign(props, key, value) == [props EXCEPT ![key] = value]

\* the calls the client has made on the builders
BuilderOps == Len(builder.sets) + Len(builder.houses)

\* b.set(key, value): assigns, and returns this
set(b, key, value) ==
    /\ builder' =
           [builder EXCEPT
                !.props[b] = assign(@, key, value),
                !.sets = Append(@, [builder |-> b, key |-> key, value |-> value,
                                    returned |-> b])]
    /\ UNCHANGED <<composite, singleton, factory, publisher, character>>

\* b.build()
build(b) ==
    LET props == builder.props[b]
    IN  /\ builder' =
               [builder EXCEPT
                    !.houses = Append(@, [builder |-> b, at |-> Len(builder.sets),
                                          house |-> HouseWithBuilder(props.type,
                                                        props.floors, props.rooms,
                                                        props.roofStyle)])]
        /\ UNCHANGED <<composite, singleton, factory, publisher, character>>

BuilderNext ==
    \/ \E b \in Builders : \E key \in Keys : \E value \in Values[key] :
           BuilderOps < MaxBuilderOps /\ set(b, key, value)
    \/ \E b \in Builders : BuilderOps < MaxBuilderOps /\ build(b)

SpecBuilder == Init /\ [][BuilderNext]_vars

\* the set calls on builder b for key among the first n set calls
SetsOf(b, key, n) ==
    {i \in 1..n : builder.sets[i].builder = b /\ builder.sets[i].key = key}

\* the value the claim gives a house's field: that of the latest such set
\* call, or the initial one
C17_Latest(b, key, n) ==
    IF SetsOf(b, key, n) = {} THEN (IF key \in {"floors", "rooms"} THEN 0 ELSE "")
    ELSE builder.sets[CHOOSE i \in SetsOf(b, key, n) :
                          \A j \in SetsOf(b, key, n) : j <= i].value

\* C17: every set call returned the builder it was called on, and every
\* house built has, for each of its four fields, the value most recently
\* set for that key on its builder before the build, or '' or 0 when the
\* key was never set on it.
C17_Builder ==
    /\ \A i \in 1..Len(builder.sets) : builder.sets[i].returned = builder.sets[i].builder
    /\ \A h \in 1..Len(builder.houses) :
           \A key \in Keys :
               builder.houses[h].house[key] =
                   C17_Latest(builder.houses[h].builder, key, builder.houses[h].at)

\* builder 1 had its type set twice with floors set in between, then built:
\* the house has the second type, the floors, and the initial rooms and roof
C17_Witness ==
    /\ Len(builder.sets) = 3
    /\ builder.sets[1] = [builder |-> 1, key |-> "type", value |-> "modern", returned |-> 1]
    /\ builder.sets[2].key = "floors"
    /\ builder.sets[3] = [builder |-> 1, key |-> "type", value |-> "cottage", returned |-> 1]
    /\ Len(builder.houses) = 1
    /\ builder.houses[1].house = HouseWithBuilder("cottage", 2, 0, "")

\* ------------------------------------- the composite's frame and history

\* the name each object of the usage script was constructed with
C18_Given == <<"main_folder", "document.txt", "report.xlsx", "images", "photo.png">>

\* C18: whatever constructions, adds and showDetails() steps have been
\* made, getName() of every object is the name it was constructed with.
C18_NameStable == \A o \in Refs : getName(o) = C18_Given[o]

\* the whole script has run, with two showDetails() calls, the later one on
\* the finished structure
C18_Witness ==
    /\ Len(heap) = 5 /\ nAdded = 4
    /\ Len(calls) = 2 /\ Settled
    /\ getName(4) = "images" /\ getName(5) = "photo.png"

\* the pre-order walk from o over the children each add call gave, in the
\* order of the calls
RECURSIVE C19_Flatten(_)
C19_Flatten(walks) ==
    IF walks = <<>> THEN <<>> ELSE Head(walks) \o C19_Flatten(Tail(walks))

RECURSIVE C19_Walk(_)
C19_Walk(o) ==
    <<o>> \o C19_Flatten([k \in 1..Len(added[o]) |-> C19_Walk(added[o][k])])

\* C19: between calls every Folder accepts add of any object, also after a
\* showDetails() call on it or on an ancestor; and a showDetails() call
\* that has returned visited every child added before it, each folder's
\* children in the order of their add calls.
C19_NoFreeze ==
    /\ status = "idle" =>
           \A f \in Refs : IsFolder(f) => \A c \in Refs : ENABLED add(f, c)
    /\ Settled => LastVisited = C19_Walk(Last.root)

\* report.xlsx and images were added after the first call, and photo.png to
\* images, a descendant of the folder shown: the second call shows them
\* after document.txt
C19_Witness ==
    /\ Len(calls) = 2 /\ Settled
    /\ calls[1].adds = 1 /\ calls[2].adds = 4
    /\ VisitedBy(1) = <<1, 2>>
    /\ VisitedBy(2) = <<1, 2, 3, 4, 5>>

\* C20: an add call changes the children of the folder it is called on
\* only, whatever other folders hold the child; and a showDetails() call
\* that has returned wrote, after the line of each folder it visited, a
\* line for each child of that folder.
C20_SharedChildren ==
    /\ [][\A g \in Refs :
              added'[g] = added[g] => heap'[g].children = heap[g].children]_vars
    /\ [](Settled =>
              \A i \in 1..Len(LastVisited) :
                  \A c \in ChildSet(LastVisited[i]) :
                      \E j \in (i + 1)..Len(LastVisited) : LastVisited[j] = c)

\* object 3 is a child of folder 1 and of folder 2; folder 2 was shown and
\* object 3 has its line
C20_Witness ==
    /\ Len(heap) = 3
    /\ Children(1) = <<3>> /\ Children(2) = <<3>>
    /\ Settled /\ Last.root = 2
    /\ LastVisited = <<2, 3>>

\* ------------------------------------- indentation, repetition, arguments

\* C21: every line written so far is the name of the object that wrote it,
\* after no space for a Folder and after exactly four spaces for a TextFile,
\* whatever the depth of the object; and in the output of the usage's tree
\* the line of images is "images", as unindented as "main_folder".
C21_IndentByKind ==
    /\ \A i \in 1..Len(console) :
           console[i] =
               Spaces(IF heap[visited[i]].kind = "Folder" THEN 0 ELSE 4)
                   \o getName(visited[i])
    /\ (Settled /\ UsageTree /\ Len(heap) = 4) =>
           /\ LastOutput[1] = "main_folder"
           /\ LastOutput[4] = "images"

\* the nested tree has been shown: images, at depth 1, is unindented, and
\* photo.png, at depth 2, has the four spaces of the files at depth 1
C21_Witness ==
    /\ Settled /\ UsageNested
    /\ Depth(1, 5) = 2
    /\ LastOutput = <<"main_folder", "    document.txt", "    report.xlsx",
                      "images", "    photo.png">>

\* the k-th call has returned
C22_Returned(k) == k < Len(calls) \/ status = "idle"

\* C22: a step changes an object of the heap only when it is an add call,
\* so no step of a showDetails() call changes a name or a children
\* sequence; and two calls that returned, on the same root with no add
\* between them, wrote the same lines.
C22_ReadOnly ==
    /\ [][\A o \in Refs :
              heap'[o] # heap[o] =>
                  /\ status = "idle"
                  /\ nAdded' = nAdded + 1
                  /\ heap'[o].name = heap[o].name
                  /\ added'[o] # added[o]]_vars
    /\ [](\A k, m \in 1..Len(calls) :
              (/\ k < m
               /\ C22_Returned(m)
               /\ calls[k].root = calls[m].root
               /\ calls[k].adds = calls[m].adds)
              => Output(k) = Output(m))

\* the usage's tree was shown twice with no add in between
C22_Witness ==
    /\ Len(calls) = 2 /\ Settled
    /\ UsageTree
    /\ calls[1].adds = 3 /\ calls[2].adds = 3
    /\ Len(Output(1)) = 4
    /\ Output(2) = Output(1)

\* C23: every getInstance call returned an instance with the connection
\* string of the first call, whatever string it was given, and the only
\* line written is the first call's "Connecting to ...".
C23_LaterArgsIgnored ==
    singleton.gets # <<>> =>
        /\ \A i \in 1..Len(singleton.gets) :
               singleton.gets[i].result.connectionString = singleton.gets[1].arg
        /\ singleton.instance.connectionString = singleton.gets[1].arg
        /\ singleton.out = <<"Connecting to " \o singleton.gets[1].arg>>

\* a second call passed another connection string than the first
C23_Witness ==
    /\ Len(singleton.gets) = 2
    /\ singleton.gets[1].arg = "postgres://localhost:5432"
    /\ singleton.gets[2].arg = "mysql://localhost:3306"
    /\ singleton.instance.connectionString = "postgres://localhost:5432"
    /\ Len(singleton.out) = 1

====
